---- MODULE Spec2Model ----
(***************************************************************************)
(* A model of src/lib.rs of cargo-deny: the crate registry built by        *)
(* get_all_crates (sorted records, identifier map, normalized resolution   *)
(* graph) and the license evidence produced by CrateDetails::licenses.     *)
(*                                                                         *)
(* Representation.  A String / OsString is the sequence of its bytes, a    *)
(* PathBuf is the sequence of its components, Option<T> is a sequence of   *)
(* length at most one, a Vec<T> is a sequence, cmp::Ordering is one of     *)
(* "Less", "Equal", "Greater".                                             *)
(***************************************************************************)
EXTENDS Integers, Sequences, FiniteSets, TLC

VARIABLES
    exec,      \* outcome of MetadataCommand::exec(): Err(cause) or Ok(metadata)
    result,    \* what get_all_crates produced (tag "NotCalled" before the call)
    found,     \* the last crate_by_id query and its answer
    krate,     \* the CrateDetails whose licenses() is queried
    disk,      \* the directory the file system holds: path, readability, entries
    iter,      \* the iterator licenses() returned: what it has still to go through
    evidence,  \* the items the iterator yielded so far (called = FALSE before the call)
    reads,     \* number of std::fs::read_dir calls made so far
    changes    \* number of changes others made to the directory under the iterator

vars == <<exec, result, found, krate, disk, iter, evidence, reads, changes>>

-----------------------------------------------------------------------------
(* Bounds of the model *)

MaxPkgs == 3       \* longest package list of the fetched metadata
MaxNodes == 2      \* longest node list of a raw resolution graph
MaxDeps == 2       \* longest dependency list of a raw node
MaxEntries == 2    \* most entries of the scanned directory
MaxChanges == 2    \* most changes to the directory while its stream is open

-----------------------------------------------------------------------------
(* Option<T> *)

None == <<>>

Some(x) == <<x>>

is_some(o) == Len(o) = 1

unwrap(o) == o[1]

-----------------------------------------------------------------------------
(* Strings as byte sequences, and their derived Ord (bytewise, then length) *)

RECURSIVE String_cmp(_, _)
String_cmp(a, b) ==
    IF a = <<>> THEN (IF b = <<>> THEN "Equal" ELSE "Less")
    ELSE IF b = <<>> THEN "Greater"
    ELSE IF a[1] < b[1] THEN "Less"
    ELSE IF a[1] > b[1] THEN "Greater"
    ELSE String_cmp(Tail(a), Tail(b))

\* str::starts_with
starts_with(name, prefix) ==
    /\ Len(name) >= Len(prefix)
    /\ SubSeq(name, 1, Len(prefix)) = prefix

\* OsStr::to_str: Some only for valid UTF-8.  Over the bytes used here
\* (ASCII and 0xFF) a name is valid UTF-8 exactly when every byte is ASCII.
to_str(name) ==
    IF \A i \in 1..Len(name) : name[i] < 128 THEN Some(name) ELSE None

\* semver::Version ordering: major, minor, patch, then pre-release, where a
\* version without pre-release identifiers is greater than one with them.
Version_cmp(v, w) ==
    IF v.major # w.major THEN (IF v.major < w.major THEN "Less" ELSE "Greater")
    ELSE IF v.minor # w.minor THEN (IF v.minor < w.minor THEN "Less" ELSE "Greater")
    ELSE IF v.patch # w.patch THEN (IF v.patch < w.patch THEN "Less" ELSE "Greater")
    ELSE IF v.pre = <<>> /\ w.pre # <<>> THEN "Greater"
    ELSE IF v.pre # <<>> /\ w.pre = <<>> THEN "Less"
    ELSE String_cmp(v.pre, w.pre)

-----------------------------------------------------------------------------
(* Paths *)

RootDir == <<47>>      \* "/"

CurDir == <<46>>       \* "."

\* Path::components: interior "." components are normalized away.
Components(p) ==
    LET keep == {i \in 1..Len(p) : i = 1 \/ p[i] # CurDir}
        RECURSIVE Pick(_)
        Pick(i) == IF i > Len(p) THEN <<>>
                   ELSE IF i \in keep THEN <<p[i]>> \o Pick(i + 1)
                   ELSE Pick(i + 1)
    IN Pick(1)

\* PathBuf == PathBuf compares the component iterators.
PathEq(p, q) == Components(p) = Components(q)

\* Path::join: an absolute right-hand side replaces the left-hand side.
join(p, q) == IF q # <<>> /\ q[1] = RootDir THEN q ELSE p \o q

\* The path as Components::as_path leaves it from the back: "." elements
\* behind the first element are no components and are cut off the end.
RECURSIVE trim_right(_)
trim_right(p) ==
    IF Len(p) > 1 /\ p[Len(p)] = CurDir THEN trim_right(SubSeq(p, 1, Len(p) - 1)) ELSE p

\* PathBuf::pop: truncate to Path::parent(), which is the path in front of
\* its last component; a path that is empty or the root has no parent and
\* stays as it is.
pop(p) ==
    LET t == trim_right(p)
    IN IF t = <<>> \/ t = <<RootDir>> THEN p
       ELSE trim_right(SubSeq(t, 1, Len(t) - 1))

-----------------------------------------------------------------------------
(* Stable sorting.  rayon's par_sort / par_sort_by are stable sorts: the   *)
(* element at input position i goes behind every element that compares     *)
(* Less than it and behind every Equal element that stood before it.       *)

\* v sorted stably, where ord[i, j] is the Ordering of v[i] against v[j]
StableSort(v, ord) ==
    LET n == Len(v)
        pos(i) == 1 + Cardinality({j \in 1..n :
                        \/ ord[j, i] = "Less"
                        \/ ord[j, i] = "Equal" /\ j < i})
    IN [k \in 1..n |-> v[CHOOSE i \in 1..n : pos(i) = k]]

-----------------------------------------------------------------------------
(* licenses::LicenseField.  The licenses module is not part of the source  *)
(* at hand; it is modelled from the specification.  A declared expression  *)
(* is the sequence of its tokens.  The field has three states: absent (no  *)
(* license declared); identifiers (the expression parsed and decomposed    *)
(* into its atomic identifiers, kept in the order they were written); and  *)
(* unparseable (the original string retained, no identifiers).  Iterating  *)
(* the field gives its atomic identifiers, so none for an absent or an     *)
(* unparseable one.                                                        *)

LicenseOperators == {"OR", "AND", "WITH", "/"}

IsAtom(tok) == tok \notin LicenseOperators

\* An expression parses when identifiers and operators alternate, beginning
\* and ending with an identifier.
Parses(expr) ==
    /\ Len(expr) % 2 = 1
    /\ \A k \in 1..Len(expr) : IsAtom(expr[k]) <=> (k % 2 = 1)

LicenseField_new(expr) ==
    IF Parses(expr)
    THEN [state |-> "Identifiers", ids |-> SelectSeq(expr, IsAtom), raw |-> <<>>]
    ELSE [state |-> "Unparseable", ids |-> <<>>, raw |-> expr]

LicenseField_default == [state |-> "Absent", ids |-> <<>>, raw |-> <<>>]

\* A faulty iteration that goes through the identifiers from the last one
LicenseField_iter_reversed(field) ==
    [k \in 1..Len(field.ids) |-> field.ids[Len(field.ids) + 1 - k]]

LicenseField_iter(field) == field.ids

-----------------------------------------------------------------------------
(* CrateDetails *)

\* deps.par_sort_by(|a, b| a.name.cmp(&b.name))
dep_name_cmp(a, b) == String_cmp(a.name, b.name)

par_sort_by_name(deps) ==
    StableSort(deps, [i, j \in 1..Len(deps) |-> dep_name_cmp(deps[i], deps[j])])

CrateDetails_new(package) ==
    [ name         |-> package.name,
      id           |-> package.id,
      version      |-> package.version,
      authors      |-> package.authors,
      repository   |-> package.repository,
      license      |-> IF is_some(package.license)
                       THEN LicenseField_new(unwrap(package.license))
                       ELSE LicenseField_default,
      license_file |-> package.license_file,
      description  |-> package.description,
      root         |-> Some(pop(package.manifest_path)),
      deps         |-> par_sort_by_name(package.dependencies) ]

\* A faulty ordering that forgets the version
CrateDetails_cmp_nameOnly(a, b) == String_cmp(a.name, b.name)

\* impl Ord for CrateDetails
CrateDetails_cmp(a, b) ==
    LET o == String_cmp(a.name, b.name)
    IN IF o = "Equal" THEN Version_cmp(a.version, b.version) ELSE o

\* impl PartialEq for CrateDetails
CrateDetails_eq(a, b) ==
    a.name = b.name /\ Version_cmp(a.version, b.version) = "Equal"

-----------------------------------------------------------------------------
(* The registry *)

\* A faulty sort that merges records that compare equal
RECURSIVE Dedup(_)
Dedup(v) ==
    IF Len(v) <= 1 THEN v
    ELSE IF CrateDetails_eq(v[1], v[2]) THEN Dedup(Tail(v))
    ELSE <<v[1]>> \o Dedup(Tail(v))

par_sort_dedup(crate_infos) ==
    Dedup(StableSort(crate_infos, [i, j \in 1..Len(crate_infos) |->
                        CrateDetails_cmp(crate_infos[i], crate_infos[j])]))

\* crate_infos.par_sort()
par_sort(crate_infos) ==
    StableSort(crate_infos, [i, j \in 1..Len(crate_infos) |->
                    CrateDetails_cmp(crate_infos[i], crate_infos[j])])

\* A faulty map that counts positions from the end
build_map_fromEnd(crate_infos) ==
    [id \in {crate_infos[k].id : k \in 1..Len(crate_infos)} |->
        Len(crate_infos) - (CHOOSE k \in 1..Len(crate_infos) : crate_infos[k].id = id)]

\* iter().enumerate().map(|(i, ci)| (ci.id.clone(), i)).collect(): positions
\* count from 0, and a later pair replaces an earlier one with the same key.
build_map(crate_infos) ==
    [id \in {crate_infos[k].id : k \in 1..Len(crate_infos)} |->
        LET ks == {k \in 1..Len(crate_infos) : crate_infos[k].id = id}
        IN (CHOOSE k \in ks : \A l \in ks : l <= k) - 1]

\* PackageId derives Ord from its repr string.
PackageId_cmp(a, b) == String_cmp(a, b)

node_id_cmp(a, b) == PackageId_cmp(a.id, b.id)

\* resolved.nodes.par_sort_by(|a, b| a.id.cmp(&b.id))
sort_nodes(nodes) ==
    StableSort(nodes, [i, j \in 1..Len(nodes) |-> node_id_cmp(nodes[i], nodes[j])])

\* A faulty normalization that leaves the dependency lists as they came
sort_dependencies_skipped(node) == node

\* nodes.dependencies.par_sort()
sort_dependencies(node) ==
    LET deps == node.dependencies
    IN [node EXCEPT !.dependencies =
          StableSort(deps, [i, j \in 1..Len(deps) |-> PackageId_cmp(deps[i], deps[j])])]

\* The normalization of metadata.resolve.unwrap()
normalize(resolved) ==
    LET sorted == sort_nodes(resolved.nodes)
    IN [resolved EXCEPT
          !.nodes = [k \in 1..Len(sorted) |-> sort_dependencies(sorted[k])]]

\* A faulty get_all_crates that returns a registry without map and graph
\* when the metadata holds no resolution graph
get_all_crates_lenient(e) ==
    IF e.tag = "Err"
    THEN [tag |-> "Err", val |-> None,
          err |-> <<"failed to fetch metadata: ", e.cause>>]
    ELSE LET crate_infos == par_sort([k \in 1..Len(e.packages) |->
                                         CrateDetails_new(e.packages[k])])
         IN [tag |-> "Ok",
             val |-> Some([crates |-> crate_infos,
                           crate_map |-> IF is_some(e.resolve)
                                         THEN build_map(crate_infos) ELSE <<>>,
                           resolved |-> IF is_some(e.resolve)
                                        THEN normalize(unwrap(e.resolve))
                                        ELSE [nodes |-> <<>>]]),
             err |-> <<>>]

\* get_all_crates, from the outcome e of the metadata command on: an Err of
\* the command is mapped and returned; metadata.resolve.unwrap() panics on
\* None, after the records were built and before any Crates value exists.
get_all_crates(e) ==
    IF e.tag = "Err"
    THEN [tag |-> "Err", val |-> None,
          err |-> <<"failed to fetch metadata: ", e.cause>>]
    ELSE LET crate_infos == par_sort([k \in 1..Len(e.packages) |->
                                         CrateDetails_new(e.packages[k])])
             map == build_map(crate_infos)
         IN IF ~is_some(e.resolve)
            THEN [tag |-> "Panic", val |-> None, err |-> <<>>]
            ELSE [tag |-> "Ok",
                  val |-> Some([crates |-> crate_infos,
                                crate_map |-> map,
                                resolved |-> normalize(unwrap(e.resolve))]),
                  err |-> <<>>]

\* Crates::crate_by_id
crate_by_id(self, id) ==
    IF id \in DOMAIN self.crate_map
    THEN Some(self.crates[self.crate_map[id] + 1])
    ELSE None

-----------------------------------------------------------------------------
(* License evidence *)

LICENSE == <<76, 73, 67, 69, 78, 83, 69>>                \* "LICENSE"

Metadata(lic) == [kind |-> "Metadata", license |-> lic, path |-> <<>>]

InferredLicenseFile(p) == [kind |-> "InferredLicenseFile", license |-> "", path |-> p]

ExplicitLicenseFile(p) == [kind |-> "ExplicitLicenseFile", license |-> "", path |-> p]

\* std::fs::read_dir(dir): Some(a directory stream, nothing of it read yet)
\* when dir is the readable directory of the disk, None (Err) otherwise.
\* The stream is a position in the directory (pos entries were handed out)
\* and the flag that it is at its end; open says that the iterator chained
\* in licenses still reads from it.
read_dir(fs, dir) ==
    IF fs.readable /\ PathEq(dir, fs.path)
    THEN Some([open |-> TRUE, pos |-> 0, end_of_stream |-> FALSE])
    ELSE None

\* The stream of the empty iterator
NoStream == [open |-> FALSE, pos |-> 0, end_of_stream |-> TRUE]

\* ReadDir::next, what it returns: None when the stream is at its end,
\* else the entry at the position of the stream, read from the directory as
\* it is now (an Err when that read fails).  A DirEntry carries its name;
\* whether it is a file is asked of the file system afterwards.
readdir(fs, stream) ==
    IF stream.end_of_stream \/ stream.pos >= Len(fs.entries)
    THEN None
    ELSE Some([ok   |-> fs.entries[stream.pos + 1].ok,
               name |-> fs.entries[stream.pos + 1].name])

\* A faulty stream that reads on behind an entry it failed to read
ReadDir_after_readsOn(fs, stream) ==
    IF readdir(fs, stream) = None
    THEN [stream EXCEPT !.end_of_stream = TRUE]
    ELSE [stream EXCEPT !.pos = @ + 1]

\* ReadDir::next, the stream it leaves: at its end once the directory is
\* used up or an entry read has failed (every later next() returns None),
\* else one entry further.
ReadDir_after(fs, stream) ==
    LET e == readdir(fs, stream)
    IN IF e = None \/ ~unwrap(e).ok
       THEN [stream EXCEPT !.end_of_stream = TRUE]
       ELSE [stream EXCEPT !.pos = @ + 1]

\* Path::is_file, asked of the file system as it is now
is_file(fs, p) ==
    \E k \in 1..Len(fs.entries) :
        /\ fs.entries[k].ok
        /\ fs.entries[k].is_file
        /\ PathEq(join(fs.path, <<fs.entries[k].name>>), p)

\* The closure of find_license_files applied to one Result<DirEntry>
license_file_of(fs, dir, e) ==
    IF ~e.ok THEN None
    ELSE LET p == join(dir, <<e.name>>)
             name == to_str(e.name)
         IN IF is_file(fs, p) /\ is_some(name) /\ starts_with(unwrap(name), LICENSE)
            THEN Some(p)
            ELSE None

\* find_license_files: the iterator it returns, as the directory stream it
\* reads from (closed for the empty iterator), and the number of read_dir
\* calls it made.  No entry is read here.
find_license_files(fs, dir) ==
    IF is_some(dir)
    THEN LET entries == read_dir(fs, unwrap(dir))
         IN [stream |-> IF is_some(entries) THEN unwrap(entries) ELSE NoStream,
             read |-> 1]
    ELSE [stream |-> NoStream, read |-> 0]

\* let explicit = self.license_file.as_ref().and_then(|lf| root.map(|r| r.join(lf)))
explicit_path(self) ==
    IF is_some(self.license_file) /\ is_some(self.root)
    THEN Some(join(unwrap(self.root), unwrap(self.license_file)))
    ELSE None

\* self.license.iter().map(LicenseInfo::Metadata)
metadata_items(self) ==
    LET lic == LicenseField_iter(self.license)
    IN [k \in 1..Len(lic) |-> Metadata(lic[k])]

\* A faulty filter that does not skip the explicit path
inferred_item_noSkip(self, found_path) == Some(InferredLicenseFile(found_path))

\* The closure of licenses applied to one found path: a path equal to the
\* explicit one is skipped, every other one becomes an inferred item.
inferred_item(self, found_path) ==
    LET explicit == explicit_path(self)
    IN IF is_some(explicit) /\ PathEq(unwrap(explicit), found_path)
       THEN None
       ELSE Some(InferredLicenseFile(found_path))

\* A faulty explicit item that is yielded without a root
explicit_items_rootless(self) ==
    IF is_some(self.license_file)
    THEN <<ExplicitLicenseFile(IF is_some(self.root)
                               THEN join(unwrap(self.root), unwrap(self.license_file))
                               ELSE unwrap(self.license_file))>>
    ELSE <<>>

\* self.license_file.iter().filter_map(|elf| root.map(|r| ExplicitLicenseFile(r.join(elf))))
explicit_items(self) ==
    IF is_some(self.license_file) /\ is_some(self.root)
    THEN <<ExplicitLicenseFile(join(unwrap(self.root), unwrap(self.license_file)))>>
    ELSE <<>>

\* CrateDetails::licenses: the chained iterator it returns, nothing of it
\* consumed yet, and the number of read_dir calls the call made
\* (find_license_files(root) runs when licenses is called).
licenses(self, fs) ==
    LET scan == find_license_files(fs, self.root)
    IN [iter |-> [metadata |-> metadata_items(self),
                  scan     |-> scan.stream,
                  explicit |-> explicit_items(self)],
        read |-> scan.read]

\* Whether the iterator has nothing left: next() returns None
exhausted(it) == it.metadata = <<>> /\ ~it.scan.open /\ it.explicit = <<>>

\* One read of the directory stream inside next(): at None the scan is over
\* and the chain leaves the stream; otherwise the Result<DirEntry> is gone
\* through against the file system as it is now and yields an inferred item
\* or nothing (nothing for an Err, behind which the stream is at its end).
scan_step(it, self, fs) ==
    LET e == readdir(fs, it.scan)
        stream == ReadDir_after(fs, it.scan)
    IN IF e = None
       THEN [iter |-> [it EXCEPT !.scan = [stream EXCEPT !.open = FALSE]],
             yielded |-> None]
       ELSE LET p == license_file_of(fs, unwrap(self.root), unwrap(e))
            IN [iter |-> [it EXCEPT !.scan = stream],
                yielded |-> IF is_some(p) THEN inferred_item(self, unwrap(p)) ELSE None]

\* One step of the iterator on a next() call, for an iterator that is not
\* exhausted: the next metadata item is yielded; or, these gone, one entry
\* is read from the directory stream (next() then goes on to the following
\* step when nothing was yielded); or, the stream at its end, the explicit
\* item is yielded.
advance(it, self, fs) ==
    IF it.metadata # <<>>
    THEN [iter |-> [it EXCEPT !.metadata = Tail(@)], yielded |-> <<Head(it.metadata)>>]
    ELSE IF it.scan.open
    THEN scan_step(it, self, fs)
    ELSE [iter |-> [it EXCEPT !.explicit = Tail(@)], yielded |-> <<Head(it.explicit)>>]

-----------------------------------------------------------------------------
(* Inputs: byte strings *)

Str_a == <<97>>                                          \* "a"

Str_ab == <<97, 98>>                                     \* "ab"

Str_b == <<98>>                                          \* "b"

Dir_p == <<112>>                                         \* "p"

Dir_q == <<113>>                                         \* "q"

CargoToml == <<67, 97, 114, 103, 111, 46, 116, 111, 109, 108>>   \* "Cargo.toml"

LICENSE_MIT == LICENSE \o <<45, 77, 73, 84>>             \* "LICENSE-MIT"

LICENSE_APACHE == LICENSE \o <<45, 65, 80, 65, 67, 72, 69>>      \* "LICENSE-APACHE"

LICENSES == LICENSE \o <<83>>                            \* "LICENSES"

LICENSE_xFF == LICENSE \o <<255>>                        \* "LICENSE" and the byte 0xFF

COPYING == <<67, 79, 80, 89, 73, 78, 71>>                \* "COPYING"

\* All sequences over S of length at most n
SeqsUpTo(S, n) == UNION {[1..k -> S] : k \in 0..n}

Distinct(s) == \A i, j \in 1..Len(s) : i # j => s[i] # s[j]

\* All orderings of the elements of the sequence s
Permutations_of(s) ==
    {[k \in 1..Len(s) |-> s[f[k]]] : f \in {g \in [1..Len(s) -> 1..Len(s)] : Distinct(g)}}

-----------------------------------------------------------------------------
(* Inputs: packages as cargo metadata reports them *)

V(major, minor, patch, pre) ==
    [major |-> major, minor |-> minor, patch |-> patch, pre |-> pre]

Dep(name) == [name |-> name, req |-> "*"]

Package(name, id, version, dirs, license, license_file) ==
    [ name          |-> name,
      id            |-> id,
      version       |-> version,
      authors       |-> <<"someone">>,
      repository    |-> None,
      description   |-> None,
      manifest_path |-> <<RootDir>> \o dirs \o <<CargoToml>>,
      license       |-> license,
      license_file  |-> license_file,
      dependencies  |-> <<Dep(Str_b), Dep(Str_a)>> ]

\* Package identifiers are unique per package; two packages may share name
\* and version (the same crate from two sources).
PackagePool ==
    { Package(Str_a,  <<51>>, V(0, 1, 0, <<>>),  <<Dir_p>>, Some(<<"MIT">>), None),
      Package(Str_a,  <<49>>, V(0, 1, 0, <<>>),  <<Dir_q>>, Some(<<"MIT">>), None),
      Package(Str_a,  <<50>>, V(1, 0, 0, <<1>>), <<Dir_p>>, None, None),
      Package(Str_a,  <<54>>, V(1, 0, 0, <<>>),  <<Dir_p>>, None, None),
      Package(Str_ab, <<53>>, V(0, 1, 0, <<>>),  <<Dir_p>>, None, None),
      Package(Str_b,  <<52>>, V(0, 0, 9, <<>>),  <<Dir_p>>, None, None) }

PackageLists == {ps \in SeqsUpTo(PackagePool, MaxPkgs) : Distinct(ps)}

IdPool == {p.id : p \in PackagePool}

AbsentId == <<48>>

\* A resolution graph over the packages ps: each node depends on the
\* packages listed after it, latest first.
GraphOf(ps) ==
    [nodes |-> [k \in 1..Len(ps) |->
        [id |-> ps[k].id,
         dependencies |-> [j \in 1..(Len(ps) - k) |-> ps[Len(ps) + 1 - j].id]]]]

FetchErrors == {"cargo metadata exited with an error", "No such file or directory"}

ExecErr(cause) == [tag |-> "Err", cause |-> cause, packages |-> <<>>, resolve |-> None]

ExecOk(ps, resolve) == [tag |-> "Ok", cause |-> "", packages |-> ps, resolve |-> resolve]

RegistryExecs ==
    {ExecErr(c) : c \in FetchErrors}
    \cup {ExecOk(ps, None) : ps \in PackageLists}
    \cup {ExecOk(ps, Some(GraphOf(ps))) : ps \in PackageLists}

\* Raw resolution graphs: node identifiers are unique, dependency lists are
\* in any order and may repeat an identifier.
NodeIds == {<<49>>, <<50>>, <<51>>}

DepIds == {<<49>>, <<51>>}

RawNodes == {[id |-> i, dependencies |-> d] : i \in NodeIds, d \in SeqsUpTo(DepIds, MaxDeps)}

NodeIdsDistinct(ns) == \A i, j \in 1..Len(ns) : i # j => ns[i].id # ns[j].id

RawGraphs == {[nodes |-> ns] : ns \in {n \in SeqsUpTo(RawNodes, MaxNodes) : NodeIdsDistinct(n)}}

GraphPackages ==
    << Package(Str_b, <<52>>, V(0, 0, 9, <<>>), <<Dir_p>>, None, None),
       Package(Str_a, <<51>>, V(0, 1, 0, <<>>), <<Dir_p>>, Some(<<"MIT">>), None) >>

GraphExecs == {ExecOk(GraphPackages, Some(g)) : g \in RawGraphs}

-----------------------------------------------------------------------------
(* Inputs: records and directories for the license evidence *)

\* impl Default for CrateDetails
CrateDetails_default ==
    [ name         |-> <<>>,
      id           |-> <<>>,
      version      |-> V(0, 1, 0, <<>>),
      authors      |-> <<>>,
      repository   |-> None,
      description  |-> None,
      root         |-> None,
      license      |-> LicenseField_default,
      license_file |-> None,
      deps         |-> <<>> ]

\* No license declared; "MIT OR Apache-2.0"; "Apache-2.0 AND MIT"; and
\* "MIT OR", which does not parse
DeclaredLicenses ==
    { None,
      Some(<<"MIT", "OR", "Apache-2.0">>),
      Some(<<"Apache-2.0", "AND", "MIT">>),
      Some(<<"MIT", "OR">>) }

LicenseFileRefs ==
    { None,
      Some(<<LICENSE_MIT>>),
      Some(<<CurDir, LICENSE_MIT>>),
      Some(<<COPYING>>),
      Some(<<RootDir, Dir_p, LICENSE_APACHE>>) }

\* The directories of the manifest path: /p, /q and /p/. (the manifest path
\* /p/./Cargo.toml)
ManifestDirs == {<<Dir_p>>, <<Dir_q>>, <<Dir_p, CurDir>>}

\* Records made by CrateDetails::new always carry a root; a record without
\* one is a CrateDetails built field by field (all fields are public), as
\* CrateDetails::default() with license and license_file filled in.
BuiltCrates ==
    {CrateDetails_new(Package(Str_a, <<51>>, V(0, 1, 0, <<>>), d, l, f)) :
        d \in ManifestDirs, l \in DeclaredLicenses, f \in LicenseFileRefs}

RootlessCrates ==
    {[CrateDetails_default EXCEPT
        !.license = IF is_some(l) THEN LicenseField_new(unwrap(l)) ELSE LicenseField_default,
        !.license_file = f] :
        l \in DeclaredLicenses, f \in LicenseFileRefs}

CratePool == BuiltCrates \cup RootlessCrates

ErrEntry == [ok |-> FALSE, name |-> <<>>, is_file |-> FALSE]

FileEntry(name) == [ok |-> TRUE, name |-> name, is_file |-> TRUE]

DirEntryOf(name) == [ok |-> TRUE, name |-> name, is_file |-> FALSE]

EntryPool ==
    { ErrEntry, FileEntry(LICENSE_MIT), FileEntry(LICENSE_APACHE), FileEntry(COPYING),
      FileEntry(LICENSE_xFF), DirEntryOf(LICENSES) }

\* A directory holds each name once; a failed entry read may repeat.
NamesDistinct(es) ==
    \A i, j \in 1..Len(es) : (i # j /\ es[i].ok /\ es[j].ok) => es[i].name # es[j].name

\* The directory /p, readable or not, with its entries in the order
\* read_dir hands them out (which is any order).
Disks ==
    {[path |-> <<RootDir, Dir_p>>, readable |-> r, entries |-> es] :
        r \in BOOLEAN, es \in {e \in SeqsUpTo(EntryPool, MaxEntries) : NamesDistinct(e)}}

EmptyDisk == [path |-> <<RootDir, Dir_p>>, readable |-> TRUE, entries |-> <<>>]

-----------------------------------------------------------------------------
(* States and actions *)

NotCalled == [tag |-> "NotCalled", val |-> None, err |-> <<>>]

NotAsked == [asked |-> None, rec |-> None]

\* What was seen of a licenses() call: the items yielded so far and the
\* directory as it was when licenses was called
NoEvidence == [called |-> FALSE, items |-> <<>>, dir |-> <<>>]

NoIter == [metadata |-> <<>>, scan |-> NoStream, explicit |-> <<>>]

\* get_all_crates(root): the whole function, from the outcome of the
\* metadata command to the value returned (or the panic).
GetAllCrates ==
    /\ result.tag = "NotCalled"
    /\ result' = get_all_crates(exec)
    /\ UNCHANGED <<exec, found, krate, disk, iter, evidence, reads, changes>>

\* crates.crate_by_id(&id) on the registry returned
CrateById(id) ==
    /\ result.tag = "Ok"
    /\ found' = [asked |-> Some(id), rec |-> crate_by_id(unwrap(result.val), id)]
    /\ UNCHANGED <<exec, result, krate, disk, iter, evidence, reads, changes>>

\* let it = krate.licenses(): read_dir runs now and opens the directory
\* stream; no entry is read and nothing is yielded yet
LicensesCall ==
    /\ ~evidence.called
    /\ LET got == licenses(krate, disk)
       IN /\ iter' = got.iter
          /\ reads' = reads + got.read
    /\ evidence' = [called |-> TRUE, items |-> <<>>, dir |-> disk.entries]
    /\ UNCHANGED <<exec, result, found, krate, disk, changes>>

\* The caller's it.next(), one step of it: an item is yielded, or a
\* directory entry is read and gone through without one, or the directory
\* stream is found at its end
IterAdvance ==
    /\ evidence.called
    /\ ~exhausted(iter)
    /\ LET step == advance(iter, krate, disk)
       IN /\ iter' = step.iter
          /\ evidence' = [evidence EXCEPT !.items = @ \o step.yielded]
    /\ UNCHANGED <<exec, result, found, krate, disk, reads, changes>>

\* Others change the directory while its stream is read, which it is from
\* the licenses() call until a next() brings it to its end (a change before
\* the call is another directory to begin with; one after the end is not
\* seen by this iterator).
Scanning ==
    /\ evidence.called
    /\ iter.scan.open
    /\ ~iter.scan.end_of_stream
    /\ changes < MaxChanges

\* An entry is replaced by one of the other kind: a file by a directory of
\* that name, or a directory by a file
Retype(k) ==
    /\ Scanning
    /\ k \in 1..Len(disk.entries)
    /\ disk.entries[k].ok
    /\ disk' = [disk EXCEPT !.entries[k].is_file = ~@]
    /\ changes' = changes + 1
    /\ UNCHANGED <<exec, result, found, krate, iter, evidence, reads>>

\* An entry is removed: one the stream has passed, or one it has not reached
\* and will not hand out.  (An entry whose read fails stays.)
Remove(k) ==
    /\ Scanning
    /\ k \in 1..Len(disk.entries)
    /\ disk.entries[k].ok
    /\ disk' = [disk EXCEPT !.entries =
                    SubSeq(@, 1, k - 1) \o SubSeq(@, k + 1, Len(@))]
    /\ iter' = IF k <= iter.scan.pos THEN [iter EXCEPT !.scan.pos = @ - 1] ELSE iter
    /\ changes' = changes + 1
    /\ UNCHANGED <<exec, result, found, krate, evidence, reads>>

\* An entry is created, at any place k of the order in which the system
\* hands the entries out: behind the position of the stream, which will hand
\* it out, or before it, which will not.
Create(e, k) ==
    /\ Scanning
    /\ e.ok
    /\ Len(disk.entries) < MaxEntries
    /\ \A j \in 1..Len(disk.entries) : disk.entries[j].name # e.name
    /\ k \in 1..(Len(disk.entries) + 1)
    /\ disk' = [disk EXCEPT !.entries =
                    SubSeq(@, 1, k - 1) \o <<e>> \o SubSeq(@, k, Len(@))]
    /\ iter' = IF k <= iter.scan.pos THEN [iter EXCEPT !.scan.pos = @ + 1] ELSE iter
    /\ changes' = changes + 1
    /\ UNCHANGED <<exec, result, found, krate, evidence, reads>>

InitRest ==
    /\ result = NotCalled
    /\ found = NotAsked
    /\ iter = NoIter
    /\ evidence = NoEvidence
    /\ reads = 0
    /\ changes = 0

\* Building the registry
Init ==
    /\ exec \in RegistryExecs
    /\ krate = CrateDetails_default
    /\ disk = EmptyDisk
    /\ InitRest

Next ==
    \/ GetAllCrates
    \/ \E id \in IdPool \cup {AbsentId} : CrateById(id)

Spec == Init /\ [][Next]_vars

\* Normalizing resolution graphs
InitGraph ==
    /\ exec \in GraphExecs
    /\ krate = CrateDetails_default
    /\ disk = EmptyDisk
    /\ InitRest

NextGraph == GetAllCrates

SpecGraph == InitGraph /\ [][NextGraph]_vars

\* Collecting license evidence
InitLicenses ==
    /\ exec = ExecOk(<<>>, Some([nodes |-> <<>>]))
    /\ krate \in CratePool
    /\ disk \in Disks
    /\ InitRest

NextLicenses ==
    \/ LicensesCall
    \/ IterAdvance
    \/ \E k \in 1..MaxEntries : Retype(k)
    \/ \E k \in 1..MaxEntries : Remove(k)
    \/ \E e \in EntryPool, k \in 1..MaxEntries : Create(e, k)

SpecLicenses == InitLicenses /\ [][NextLicenses]_vars

-----------------------------------------------------------------------------
(* Properties of the registry *)

Called == result.tag # "NotCalled"

Built == result.tag = "Ok"

RegistryCrates == unwrap(result.val).crates

\* a <= b in the order "name first, version only when the names are equal"
NameVersionLeq(a, b) ==
    \/ String_cmp(a.name, b.name) = "Less"
    \/ /\ a.name = b.name
       /\ Version_cmp(a.version, b.version) \in {"Less", "Equal"}

\* C1: the records of the registry returned by get_all_crates are sorted
\* ascending by (name, version): every adjacent pair (a, b) has a <= b, names
\* compared first and versions only when the names are equal.
C1_SortedByNameVersion ==
    Built => \A i \in 1..(Len(RegistryCrates) - 1) :
                NameVersionLeq(RegistryCrates[i], RegistryCrates[i + 1])

\* A registry of three records built from a list that arrived out of order,
\* with two records of one name told apart by their versions.
C1_Witness ==
    /\ Built
    /\ Len(RegistryCrates) = 3
    /\ \E i \in 1..2 : ~NameVersionLeq(CrateDetails_new(exec.packages[i]),
                                      CrateDetails_new(exec.packages[i + 1]))
    /\ \E i \in 1..2 : /\ RegistryCrates[i].name = RegistryCrates[i + 1].name
                       /\ Version_cmp(RegistryCrates[i].version, RegistryCrates[i + 1].version) = "Less"

InputIds == {exec.packages[k].id : k \in 1..Len(exec.packages)}

\* C2: the identifier map agrees with the sorted sequence: the record at
\* position i (counted from 0) is mapped to i and crate_by_id of its
\* identifier returns that very record; every stored position is a valid
\* index; an identifier no input package carries is answered with None.
C2_MapConsistent ==
    /\ Built =>
        LET reg == unwrap(result.val)
        IN /\ \A i \in 1..Len(reg.crates) :
                /\ reg.crate_map[reg.crates[i].id] = i - 1
                /\ crate_by_id(reg, reg.crates[i].id) = Some(reg.crates[i])
           /\ \A id \in DOMAIN reg.crate_map :
                reg.crate_map[id] \in 0..(Len(reg.crates) - 1)
           /\ \A id \in (IdPool \cup {AbsentId}) \ InputIds :
                crate_by_id(reg, id) = None
    /\ (Built /\ is_some(found.asked)) =>
        IF unwrap(found.asked) \in InputIds
        THEN /\ is_some(found.rec)
             /\ unwrap(found.rec).id = unwrap(found.asked)
             /\ unwrap(found.rec) \in {RegistryCrates[i] : i \in 1..Len(RegistryCrates)}
        ELSE found.rec = None

\* A registry holding two records that compare equal, where the second of
\* them was looked up by its identifier, and a lookup of an absent one.
C2_Witness ==
    /\ Built
    /\ Len(RegistryCrates) = 3
    /\ \E i \in 1..2 : CrateDetails_eq(RegistryCrates[i], RegistryCrates[i + 1])
                        /\ found.asked = Some(RegistryCrates[i + 1].id)
                        /\ found.rec = Some(RegistryCrates[i + 1])

\* C3: the record sequence depends only on the set of input packages: every
\* reordering of the input package list yields the same sequence, position
\* by position, identifiers included.
C3_OrderIndependent ==
    Built => \A ps \in Permutations_of(exec.packages) :
                LET other == get_all_crates(ExecOk(ps, exec.resolve))
                IN /\ other.tag = "Ok"
                   /\ unwrap(other.val).crates = RegistryCrates

\* C9: the registry neither drops nor merges records: its sequence is a
\* reordering of the records derived from the input packages, and two input
\* packages with one name and version but different identifiers both appear,
\* next to each other, compare equal, and are each returned by crate_by_id
\* of their own identifier.
C9_NothingDroppedOrMerged ==
    Built =>
        LET reg == unwrap(result.val)
            recs == [k \in 1..Len(exec.packages) |-> CrateDetails_new(exec.packages[k])]
        IN /\ Len(reg.crates) = Len(recs)
           /\ reg.crates \in Permutations_of(recs)
           /\ \A k, l \in 1..Len(recs) :
                (k # l /\ recs[k].name = recs[l].name /\ recs[k].version = recs[l].version) =>
                    \E i, j \in 1..Len(reg.crates) :
                        /\ reg.crates[i] = recs[k]
                        /\ reg.crates[j] = recs[l]
                        /\ (i = j + 1 \/ j = i + 1)
                        /\ CrateDetails_eq(reg.crates[i], reg.crates[j])
                        /\ crate_by_id(reg, recs[k].id) = Some(recs[k])
                        /\ crate_by_id(reg, recs[l].id) = Some(recs[l])

\* Two packages of one name and version arrived with a third between them.
C9_Witness ==
    /\ Built
    /\ Len(exec.packages) = 3
    /\ exec.packages[1].name = exec.packages[3].name
    /\ exec.packages[1].version = exec.packages[3].version
    /\ exec.packages[1].id # exec.packages[3].id
    /\ Len(RegistryCrates) = 3

\* C10: get_all_crates is all-or-nothing.  A Crates value, when there is
\* one, has its records, its map and its normalized graph, all three built;
\* a failed metadata fetch gives an Err naming the cause and no Crates value;
\* metadata without a resolution graph gives a failure and no Crates value.
C10_AllOrNothing ==
    /\ is_some(result.val) =>
        LET reg == unwrap(result.val)
        IN /\ result.tag = "Ok"
           /\ exec.tag = "Ok"
           /\ is_some(exec.resolve)
           /\ Len(reg.crates) = Len(exec.packages)
           /\ DOMAIN reg.crate_map = InputIds
           /\ Len(reg.resolved.nodes) = Len(unwrap(exec.resolve).nodes)
    /\ (Called /\ exec.tag = "Err") =>
        /\ result.tag = "Err"
        /\ result.val = None
        /\ \E k \in 1..Len(result.err) : result.err[k] = exec.cause
    /\ (Called /\ exec.tag = "Ok" /\ ~is_some(exec.resolve)) =>
        /\ result.tag \in {"Err", "Panic"}
        /\ result.val = None
    /\ (Called /\ exec.tag = "Ok" /\ is_some(exec.resolve)) => result.tag = "Ok"

\* The metadata held packages and no resolution graph, and the call failed.
C10_Witness ==
    /\ Called
    /\ exec.tag = "Ok"
    /\ Len(exec.packages) = 2
    /\ exec.resolve = None
    /\ result.tag = "Panic"
    /\ result.val = None

-----------------------------------------------------------------------------
(* Properties of the normalized resolution graph *)

RawGraph == unwrap(exec.resolve)

\* The raw graphs that hold the nodes and edges of g in another order: the
\* node list reordered, or the dependency list of one node reordered.  Every
\* reordering of a graph is reached from it by such steps, and each step
\* leads to another raw graph of the inputs.
Reordered(g) ==
    {[nodes |-> ns] : ns \in Permutations_of(g.nodes)}
    \cup UNION {{[nodes |-> [g.nodes EXCEPT ![k].dependencies = d]] :
                    d \in Permutations_of(g.nodes[k].dependencies)} :
                k \in 1..Len(g.nodes)}

SameEdges(g, h) ==
    /\ Len(g.nodes) = Len(h.nodes)
    /\ \A k \in 1..Len(g.nodes) :
         \E l \in 1..Len(h.nodes) :
            /\ g.nodes[k].id = h.nodes[l].id
            /\ h.nodes[l].dependencies \in Permutations_of(g.nodes[k].dependencies)

\* C7: normalization does not depend on the input order: a raw graph with
\* the same nodes and the same edges per node, its node list or dependency
\* lists in another order, is normalized to the identical graph; the nodes
\* end up sorted by identifier and every dependency list ends up sorted.
C7_GraphOrderIndependent ==
    Built =>
        LET out == unwrap(result.val).resolved
        IN /\ \A g \in Reordered(RawGraph) : normalize(g) = out
           /\ SameEdges(RawGraph, out)
           /\ \A k \in 1..(Len(out.nodes) - 1) :
                String_cmp(out.nodes[k].id, out.nodes[k + 1].id) = "Less"
           /\ \A k \in 1..Len(out.nodes) :
                \A j \in 1..(Len(out.nodes[k].dependencies) - 1) :
                    String_cmp(out.nodes[k].dependencies[j],
                               out.nodes[k].dependencies[j + 1]) \in {"Less", "Equal"}

\* A raw graph whose two nodes arrived in descending order of identifier,
\* one of them with its two dependencies in descending order, normalized.
C7_Witness ==
    /\ Built
    /\ Len(RawGraph.nodes) = 2
    /\ String_cmp(RawGraph.nodes[1].id, RawGraph.nodes[2].id) = "Greater"
    /\ \E k \in 1..2 :
         /\ Len(RawGraph.nodes[k].dependencies) = 2
         /\ String_cmp(RawGraph.nodes[k].dependencies[1],
                       RawGraph.nodes[k].dependencies[2]) = "Greater"
    /\ unwrap(result.val).resolved # RawGraph

-----------------------------------------------------------------------------
(* Properties of the license evidence *)

Items == evidence.items

\* The iterator was read to its end
Done == evidence.called /\ exhausted(iter)

\* Nobody changed the directory since licenses was called
Unchanged == changes = 0

\* What the iterator it yields from its state on, read to its end while the
\* directory stays as fs
RECURSIVE Drain(_, _, _)
Drain(it, self, fs) ==
    IF exhausted(it) THEN <<>>
    ELSE LET step == advance(it, self, fs)
         IN step.yielded \o Drain(step.iter, self, fs)

\* What self.licenses() yields, read to its end, on the unchanging directory fs
Collected(self, fs) == Drain(licenses(self, fs).iter, self, fs)

IsPrefix(s, t) == Len(s) <= Len(t) /\ s = SubSeq(t, 1, Len(s))

Rank(item) ==
    CASE item.kind = "Metadata" -> 1
      [] item.kind = "InferredLicenseFile" -> 2
      [] item.kind = "ExplicitLicenseFile" -> 3

OfKind(kind) == {i \in 1..Len(Items) : Items[i].kind = kind}

IsMetadata(item) == item.kind = "Metadata"

IsInferred(item) == item.kind = "InferredLicenseFile"

HasBoth == is_some(krate.root) /\ is_some(krate.license_file)

ExplicitPath == join(unwrap(krate.root), unwrap(krate.license_file))

\* The atomic identifiers of the record's declared license field, in the
\* order the field holds them
DeclaredIds == krate.license.ids

\* The root directory of the record is the directory of the disk
RootOnDisk == is_some(krate.root) /\ PathEq(unwrap(krate.root), disk.path)

\* The entries of the record's root directory, as the disk holds them
RootEntries ==
    IF RootOnDisk THEN {disk.entries[k] : k \in 1..Len(disk.entries)} ELSE {}

\* The path of the k-th entry of the root directory
EntryPath(k) == join(unwrap(krate.root), <<disk.entries[k].name>>)

\* No entry read fails up to the k-th entry: the stream hands it out
Reached(k) == \A j \in 1..k : disk.entries[j].ok

\* The record of the example: declared "MIT OR Apache-2.0", license file
\* "LICENSE-MIT", manifest in /p
ExampleCrate ==
    CrateDetails_new(Package(Str_a, <<51>>, V(0, 1, 0, <<>>), <<Dir_p>>,
                             Some(<<"MIT", "OR", "Apache-2.0">>), Some(<<LICENSE_MIT>>)))

ExampleState ==
    /\ krate = ExampleCrate
    /\ disk.readable
    /\ disk.entries \in Permutations_of(<<FileEntry(LICENSE_MIT), FileEntry(LICENSE_APACHE)>>)

\* C4: licenses yields its items ordered by evidence kind: the declared
\* items first, one per atomic identifier of the declared license field in
\* the field's own order (none for an absent or unparseable field), then
\* the inferred-file items, then the explicit-file item; and the example
\* record, its iterator read to the end over the directory of the example,
\* yields exactly declared(MIT), declared(Apache-2.0),
\* inferred(LICENSE-APACHE), explicit(LICENSE-MIT).
C4_EvidenceOrder ==
    evidence.called =>
        /\ \A i, j \in 1..Len(Items) : i < j => Rank(Items[i]) <= Rank(Items[j])
        /\ LET declared == SelectSeq(Items, IsMetadata)
               atoms == [k \in 1..Len(declared) |-> declared[k].license]
           IN /\ IsPrefix(atoms, DeclaredIds)
              /\ Done => atoms = DeclaredIds
        /\ (Done /\ Unchanged /\ ExampleState) =>
             Items = << Metadata("MIT"), Metadata("Apache-2.0"),
                        InferredLicenseFile(<<RootDir, Dir_p, LICENSE_APACHE>>),
                        ExplicitLicenseFile(<<RootDir, Dir_p, LICENSE_MIT>>) >>

\* The example record was queried, with LICENSE-MIT handed out first.
C4_Witness ==
    /\ Done
    /\ Unchanged
    /\ ExampleState
    /\ disk.entries[1].name = LICENSE_MIT
    /\ Len(Items) = 4

\* C5 as claimed: with root and license-file reference both present, no
\* inferred item carries the explicit path, exactly one explicit item is
\* yielded and carries it, and every other regular file of the root
\* directory whose name starts with "LICENSE" is yielded as an inferred item.
C5_AsClaimed ==
    (Done /\ HasBoth) =>
        /\ \A i \in OfKind("InferredLicenseFile") : ~PathEq(Items[i].path, ExplicitPath)
        /\ Cardinality(OfKind("ExplicitLicenseFile")) = 1
        /\ \A i \in OfKind("ExplicitLicenseFile") : Items[i].path = ExplicitPath
        /\ \A e \in RootEntries :
             (/\ e.is_file
              /\ starts_with(e.name, LICENSE)
              /\ ~PathEq(join(unwrap(krate.root), <<e.name>>), ExplicitPath))
             => \E i \in OfKind("InferredLicenseFile") :
                    Items[i].path = join(unwrap(krate.root), <<e.name>>)

\* C5: with root and license-file reference both present, no inferred item
\* ever carries the explicit path; the iterator read to its end has yielded
\* exactly one explicit item, which carries it (whether the scan skipped
\* that path, did not find it, or the directory could not be read); and,
\* when the directory was read and did not change meanwhile, every other
\* entry that the scan reached (no entry read failed up to it), that is a
\* regular file and whose name is valid UTF-8 starting with "LICENSE", has
\* been yielded as an inferred item.
C5_ExplicitOnceNeverInferred ==
    (evidence.called /\ HasBoth) =>
        /\ \A i \in OfKind("InferredLicenseFile") : ~PathEq(Items[i].path, ExplicitPath)
        /\ Cardinality(OfKind("ExplicitLicenseFile")) = IF Done THEN 1 ELSE 0
        /\ \A i \in OfKind("ExplicitLicenseFile") : Items[i].path = ExplicitPath
        /\ (Done /\ Unchanged /\ disk.readable /\ RootOnDisk) =>
             \A k \in 1..Len(disk.entries) :
                (/\ Reached(k)
                 /\ disk.entries[k].is_file
                 /\ is_some(to_str(disk.entries[k].name))
                 /\ starts_with(disk.entries[k].name, LICENSE)
                 /\ ~PathEq(EntryPath(k), ExplicitPath))
                => \E i \in OfKind("InferredLicenseFile") : Items[i].path = EntryPath(k)

\* The license file is referred to as "./LICENSE-MIT"; the scan of /p found
\* LICENSE-MIT, which was skipped, and LICENSE-APACHE, which was yielded.
C5_Witness ==
    /\ Done
    /\ Unchanged
    /\ krate.root = Some(<<RootDir, Dir_p>>)
    /\ krate.license_file = Some(<<CurDir, LICENSE_MIT>>)
    /\ disk.readable
    /\ disk.entries = <<FileEntry(LICENSE_APACHE), FileEntry(LICENSE_MIT)>>
    /\ Cardinality(OfKind("InferredLicenseFile")) = 1
    /\ Cardinality(OfKind("ExplicitLicenseFile")) = 1

\* Why the last sentence of C5 needs each of its provisos: a state in which
\* a regular file LICENSE-APACHE of the root directory, not the explicit
\* path, was not yielded by the iterator read to its end ...
MissedApache ==
    /\ Done
    /\ HasBoth
    /\ RootOnDisk
    /\ ~PathEq(ExplicitPath, <<RootDir, Dir_p, LICENSE_APACHE>>)
    /\ OfKind("InferredLicenseFile") = {}

\* ... because the directory could not be read;
WitnessMissedUnreadableDirectory ==
    /\ MissedApache
    /\ Unchanged
    /\ ~disk.readable
    /\ disk.entries = <<FileEntry(LICENSE_APACHE)>>

\* ... because an entry read failed before the file was reached;
WitnessMissedBehindFailedRead ==
    /\ MissedApache
    /\ Unchanged
    /\ disk.readable
    /\ disk.entries = <<ErrEntry, FileEntry(LICENSE_APACHE)>>

\* ... because the file was created while the stream was read, before the
\* position of the stream;
WitnessMissedCreated ==
    /\ MissedApache
    /\ changes = 1
    /\ disk.readable
    /\ evidence.dir = <<FileEntry(COPYING)>>
    /\ disk.entries = <<FileEntry(LICENSE_APACHE), FileEntry(COPYING)>>

\* ... and a regular file whose name starts with the bytes of "LICENSE" but
\* is not valid UTF-8 is not yielded either.
WitnessMissedNotUtf8 ==
    /\ Done
    /\ HasBoth
    /\ RootOnDisk
    /\ Unchanged
    /\ disk.readable
    /\ disk.entries = <<FileEntry(LICENSE_xFF)>>
    /\ OfKind("InferredLicenseFile") = {}

\* C6: a record without a root directory yields declared-license items only,
\* whether or not a license-file reference is set, and no directory is read.
C6_NoRootOnlyDeclared ==
    (evidence.called /\ krate.root = None) =>
        /\ \A i \in 1..Len(Items) : Items[i].kind = "Metadata"
        /\ Done => Len(Items) = Len(DeclaredIds)
        /\ ~iter.scan.open
        /\ iter.scan.pos = 0
        /\ reads = 0

\* A record without root, with a declared license and a license-file
\* reference, was queried while the disk held a LICENSE file.
C6_Witness ==
    /\ Done
    /\ krate.root = None
    /\ krate.license_file = Some(<<LICENSE_MIT>>)
    /\ Len(DeclaredIds) = 2
    /\ disk.readable
    /\ disk.entries = <<FileEntry(LICENSE_MIT)>>
    /\ Len(Items) = 2

\* The entries without those whose read fails
RECURSIVE OkEntries(_)
OkEntries(es) ==
    IF es = <<>> THEN <<>>
    ELSE IF Head(es).ok THEN <<Head(es)>> \o OkEntries(Tail(es))
    ELSE OkEntries(Tail(es))

\* The entries before the first one whose read fails
RECURSIVE UpToFailure(_)
UpToFailure(es) ==
    IF es = <<>> \/ ~Head(es).ok THEN <<>>
    ELSE <<Head(es)>> \o UpToFailure(Tail(es))

ReadFails == is_some(krate.root) /\ read_dir(disk, unwrap(krate.root)) = None

\* What a failed read of the root directory gives: what a readable
\* directory without matching files gives, which is the declared items, no
\* inferred item, and the explicit item when root and license-file
\* reference are both present
AsWithoutMatchingFiles ==
    /\ Items = Collected(krate, [path |-> unwrap(krate.root), readable |-> TRUE,
                                entries |-> <<FileEntry(COPYING)>>])
    /\ OfKind("InferredLicenseFile") = {}
    /\ Cardinality(OfKind("Metadata")) = Len(DeclaredIds)
    /\ Cardinality(OfKind("ExplicitLicenseFile")) = IF HasBoth THEN 1 ELSE 0

\* C8 as claimed: for an iterator read to its end, a failed read of the
\* root directory gives what a readable directory without matching files
\* gives, and an entry that cannot be read is skipped while the remaining
\* entries are still examined: on a directory that stays as it is, the
\* items are those of the directory without the entries that cannot be read.
C8_AsClaimed ==
    Done =>
        /\ ReadFails => AsWithoutMatchingFiles
        /\ Unchanged =>
             Items = Collected(krate, [disk EXCEPT !.entries = OkEntries(disk.entries)])

\* C8: no read failure surfaces; the iterator read to its end has yielded
\* every declared item and, when root and license-file reference are both
\* present, the explicit item.  A failed read of the root directory gives
\* what a readable directory without matching files gives.  A failed read
\* of an entry ends the scan: on a directory that stays as it is, the items
\* are those of the directory cut off before the first entry that cannot be
\* read, so the entries before it are examined and those behind it are not.
C8_ReadFailuresAreSilent ==
    Done =>
        /\ Cardinality(OfKind("Metadata")) = Len(DeclaredIds)
        /\ Cardinality(OfKind("ExplicitLicenseFile")) = IF HasBoth THEN 1 ELSE 0
        /\ ReadFails => AsWithoutMatchingFiles
        /\ Unchanged =>
             Items = Collected(krate, [disk EXCEPT !.entries = UpToFailure(disk.entries)])
        /\ (Unchanged /\ ~ReadFails /\ RootOnDisk) =>
             \A k \in 1..Len(disk.entries) :
                (/\ disk.entries[k] = FileEntry(LICENSE_APACHE)
                 /\ ~(HasBoth /\ PathEq(ExplicitPath, EntryPath(k))))
                => (Reached(k) <=>
                      InferredLicenseFile(EntryPath(k)) \in {Items[i] : i \in 1..Len(Items)})

\* The scan of /p met an entry that could not be read and ended there:
\* LICENSE-APACHE behind it was not yielded, the explicit item was.
C8_Witness ==
    /\ Done
    /\ Unchanged
    /\ krate.root = Some(<<RootDir, Dir_p>>)
    /\ krate.license_file = Some(<<LICENSE_MIT>>)
    /\ disk.readable
    /\ disk.entries = <<ErrEntry, FileEntry(LICENSE_APACHE)>>
    /\ OfKind("InferredLicenseFile") = {}
    /\ Cardinality(OfKind("ExplicitLicenseFile")) = 1

\* The scan of /p yielded LICENSE-APACHE and then met an entry that could
\* not be read.
WitnessYieldedBeforeFailedRead ==
    /\ Done
    /\ Unchanged
    /\ krate.root = Some(<<RootDir, Dir_p>>)
    /\ disk.readable
    /\ disk.entries = <<FileEntry(LICENSE_APACHE), ErrEntry>>
    /\ OfKind("InferredLicenseFile") # {}

\* The directory changed under the iterator: LICENSE-APACHE was a file and
\* LICENSES a directory at the call; LICENSE-APACHE was yielded, then the two
\* changed kinds and LICENSES was yielded too, though the directory never
\* held two files.
WitnessChangedUnderScan ==
    /\ Done
    /\ changes = 2
    /\ krate.license_file = None
    /\ evidence.dir = <<FileEntry(LICENSE_APACHE), DirEntryOf(LICENSES)>>
    /\ disk.entries = <<DirEntryOf(LICENSE_APACHE), FileEntry(LICENSES)>>
    /\ Cardinality(OfKind("InferredLicenseFile")) = 2

\* licenses was called and opened the directory; nothing was read of it and
\* nothing was yielded yet.
WitnessCalledNotRead ==
    /\ evidence.called
    /\ reads = 1
    /\ Items = <<>>
    /\ iter.scan.open
    /\ iter.scan.pos = 0

\* The directory was empty when licenses was called; LICENSE-MIT was created
\* before the stream was read and was yielded.
WitnessCreatedInEmpty ==
    /\ Done
    /\ DeclaredIds = <<>>
    /\ krate.license_file = None
    /\ evidence.dir = <<>>
    /\ disk.entries = <<FileEntry(LICENSE_MIT)>>
    /\ Items = <<InferredLicenseFile(<<RootDir, Dir_p, LICENSE_MIT>>)>>

\* The directory was empty at the call and LICENSE-APACHE was created after
\* the first declared item was yielded; the record of the example yields it.
WitnessCreatedAfterFirstNext ==
    /\ Done
    /\ krate = ExampleCrate
    /\ evidence.dir = <<>>
    /\ disk.entries = <<FileEntry(LICENSE_APACHE)>>
    /\ Items = << Metadata("MIT"), Metadata("Apache-2.0"),
                  InferredLicenseFile(<<RootDir, Dir_p, LICENSE_APACHE>>),
                  ExplicitLicenseFile(<<RootDir, Dir_p, LICENSE_MIT>>) >>

\* The directory held LICENSE-MIT at the call; LICENSE-APACHE was created
\* and handed out first.
WitnessCreatedHandedOutFirst ==
    /\ Done
    /\ krate.license_file = None
    /\ evidence.dir = <<FileEntry(LICENSE_MIT)>>
    /\ disk.entries = <<FileEntry(LICENSE_APACHE), FileEntry(LICENSE_MIT)>>
    /\ SelectSeq(Items, IsInferred) =
         << InferredLicenseFile(<<RootDir, Dir_p, LICENSE_APACHE>>),
            InferredLicenseFile(<<RootDir, Dir_p, LICENSE_MIT>>) >>

\* A file created before the position of the stream was not handed out.
WitnessCreatedNotSeen ==
    /\ Done
    /\ krate.license_file = None
    /\ evidence.dir = <<FileEntry(LICENSE_MIT)>>
    /\ disk.entries = <<FileEntry(LICENSE_APACHE), FileEntry(LICENSE_MIT)>>
    /\ Cardinality(OfKind("InferredLicenseFile")) = 1

\* A declared expression that does not parse yields no declared item.
WitnessUnparseable ==
    /\ Done
    /\ krate.license.state = "Unparseable"
    /\ krate.license.raw = <<"MIT", "OR">>
    /\ OfKind("Metadata") = {}

====
